---- MODULE Spec2Model ----
(***************************************************************************)
(* Model of the simulation core of Karamax/camp-1: the layered map         *)
(* (src/Map.py, RLMap), the actors placed on it (src/Actor.py) and the     *)
(* controllers that drive them (src/Controller.py).                        *)
(*                                                                         *)
(* Python values are modelled as follows.  None is the string "None"; an   *)
(* attribute that was never assigned is "Unset".  A call returns a record  *)
(* with the value returned (ret) and the exception that left the call      *)
(* (exn, "none" when it returned normally).  A location is a tuple <<x,y>> *)
(* (the empty list of a never placed actor is <<>>), and list indexing     *)
(* follows Python: an index i of a list of length n is valid for           *)
(* -n <= i < n, a negative index counting from the end.                    *)
(***************************************************************************)
EXTENDS Integers, Sequences, FiniteSets, TLC

\* ------------------------------------------------------------------ bounds
Width == 3
Height == 3
MaxGridOps == 2
MaxCtlOps == 3
MaxCommands == 1
MaxDepth == 3

\* ------------------------------------------------------- program constants
DefaultHp == 5
DefaultDamage == 3
StartAmmo == 0
PlayerHp == 10
ThugHp == 3

None == "None"
Unset == "Unset"

\* command_value None (no payload), an offset <<dx, dy>> or an item <<item>>.
NoValue == <<>>

\* last_command None, and last_command never assigned.
NoCommand == [command_type |-> None, command_value |-> NoValue]
UnsetCommand == [command_type |-> Unset, command_value |-> NoValue]

\* RLMap(size=(Width, Height), layers=Layers); the layer names are those the
\* map loader uses.  "actors" is the layer Actor.collide deletes from,
\* "constructions" and "items" are those the tile effects work on.
Layers == {"bg", "constructions", "items", "actors"}

\* The entities of the model: three actors, two ground tiles, three
\* constructions (a barrel that can fight, a mine, the hole of an explosion)
\* and an item.
Actors == {"pc", "thug", "mute"}
Tiles == {"floor", "wall"}
Constructions == {"barrel", "mine", "hole"}
Items == {"potion"}
Entities == Actors \cup Tiles \cup Constructions \cup Items

\* type(item) is Actor
IsActor(e) == e \in Actors

\* isinstance(item, Construction), isinstance(item, Item)
IsConstruction(e) == e \in Constructions
IsItem(e) == e \in Items

\* The passable flag: actors are impassable by default, a tile, a construction
\* and an item as constructed.
Passable(e) == e \in {"floor", "potion"}

\* The fighter attribute: a FighterComponent or None.
HasFighter(e) == e \in {"pc", "thug", "barrel"}

\* FighterComponent(hp=5, damage=3)
FighterInit == [e \in Entities |-> IF HasFighter(e) THEN DefaultHp ELSE 0]
Damage(e) == DefaultDamage

\* FighterComponent.max_hp: the hp the fighter is constructed with.
max_hp(e) == DefaultHp

\* FighterComponent.ammo and max_ammo as constructed.
AmmoInit == [e \in Entities |-> StartAmmo]
max_ammo(e) == StartAmmo

\* The fallback location of Actor.collide
Fallback == <<1, 1>>

\* Command.acceptable_commands
acceptable_commands == {"walk", "use_item", "wait", "grab", "drop_item"}

\* PlayerController.accepted_command_types
accepted_command_types == {"walk", "use_item", "wait", "grab", "drop_item"}

\* ------------------------------------------------------------------ inputs
InBounds == (0 .. Width - 1) \X (0 .. Height - 1)

\* Locations handed to the map by its callers: the cells of the corner at the
\* origin, a location with a negative coordinate and one past the last row.
InputLocs == ((0 .. 1) \X (0 .. 1)) \cup {<<-1, 0>>, <<0, Height>>}

\* Layers named in direct calls of the map.
InputLayers == {"bg", "actors"}

\* Entities handed to the map by direct calls: two actors and a tile.
InputItems == {"pc", "mute", "wall"}

\* command_type values a caller may try to construct a Command with.
InputTypes == acceptable_commands \cup {"fly", None}

\* Symbols of keys pressed (keycode[1]).
InputKeys == {"h"}

\* command_value payloads.
InputValues == {NoValue, <<1, 0>>, <<"potion">>}

VARIABLES
    tiles,          \* RLMap.tiles: layer -> x -> y -> entity or None
    actors,         \* RLMap.actors: the turn-order roster
    stamp,          \* per actor: Actor.map, Actor.layer, Actor.location
    hp,             \* per actor: Actor.fighter.hp
    game_log,       \* RLMap.game_log
    game_events,    \* RLMap.game_events
    ammo,           \* per fighter: fighter.ammo
    inventory,      \* per actor: the items its inventory holds
    last_command,   \* per actor's controller: PlayerController.last_command
    cmd,            \* the Command object the caller constructed last
    last,           \* the call made last: its arguments and its outcome
    gridOps,        \* number of direct map and move calls made
    ctlOps,         \* number of controller, turn and collide calls made
    newOps          \* number of Command constructions tried

vars == <<gridOps, ctlOps, newOps, tiles, actors, stamp, hp, game_log, game_events, ammo,
          inventory, last_command, cmd, last>>

\* ------------------------------------------------------------ Python lists
\* The 0-based position list[i] reads in a list of length n, -1 for IndexError.
PyIndex(i, n) ==
    IF i >= 0 /\ i < n THEN i
    ELSE IF i < 0 /\ i >= -n THEN i + n
    ELSE -1

\* tiles[layer][location[0]][location[1]]: the exception the subscripts raise.
SubscriptExn(layer, loc) ==
    IF layer \notin Layers THEN "KeyError"
    ELSE IF Len(loc) < 2 THEN "IndexError"
    ELSE IF PyIndex(loc[1], Width) < 0 \/ PyIndex(loc[2], Height) < 0 THEN "IndexError"
    ELSE "none"

CellX(loc) == PyIndex(loc[1], Width)
CellY(loc) == PyIndex(loc[2], Height)

\* ------------------------------------------------------------------- RLMap
\* The world a call works on, and its result.
World == [tiles |-> tiles, actors |-> actors, stamp |-> stamp, hp |-> hp,
          game_log |-> game_log, game_events |-> game_events, ammo |-> ammo,
          inventory |-> inventory]

Result(w, ret, exn) == [w |-> w, ret |-> ret, exn |-> exn]

EmptyTiles == [l \in Layers |-> [x \in 0 .. Width - 1 |-> [y \in 0 .. Height - 1 |-> None]]]

NoStamp == [map |-> None, layer |-> Unset, location |-> <<>>]

\* RLMap.get_item
get_item(w, layer, loc) ==
    IF SubscriptExn(layer, loc) # "none" THEN Result(w, None, SubscriptExn(layer, loc))
    ELSE Result(w, w.tiles[layer][CellX(loc)][CellY(loc)], "none")

\* RLMap.has_item
has_item(w, layer, loc) ==
    IF SubscriptExn(layer, loc) # "none" THEN Result(w, None, SubscriptExn(layer, loc))
    ELSE Result(w, w.tiles[layer][CellX(loc)][CellY(loc)] # None, "none")

\* Actor.connect_to_map(map, layer, location)
connect_to_map(w, a, layer, loc) ==
    [w EXCEPT !.stamp[a] = [map |-> "map", layer |-> layer, location |-> loc]]

\* The store tiles[layer][x][y] = item
SetCell(w, layer, loc, item) ==
    [w EXCEPT !.tiles[layer][CellX(loc)][CellY(loc)] = item]

\* add_item that leaves an occupied cell as it is.
add_item_keep(w, item, layer, loc) ==
    IF SubscriptExn(layer, loc) # "none" THEN Result(w, None, SubscriptExn(layer, loc))
    ELSE LET w1 == IF w.tiles[layer][CellX(loc)][CellY(loc)] = None
                   THEN SetCell(w, layer, loc, item) ELSE w
         IN  IF IsActor(item)
             THEN Result(connect_to_map([w1 EXCEPT !.actors = Append(@, item)], item, None, loc),
                         None, "none")
             ELSE Result(w1, None, "none")

\* add_item that hands the layer on to connect_to_map.
add_item_layered(w, item, layer, loc) ==
    IF SubscriptExn(layer, loc) # "none" THEN Result(w, None, SubscriptExn(layer, loc))
    ELSE LET w1 == SetCell(w, layer, loc, item) IN
         IF IsActor(item)
         THEN Result(connect_to_map([w1 EXCEPT !.actors = Append(@, item)], item, layer, loc),
                     None, "none")
         ELSE Result(w1, None, "none")

\* RLMap.add_item: the store, then for an Actor the roster and the stamp.
\* connect_to_map is called without a layer, which therefore defaults to None.
add_item(w, item, layer, loc) ==
    IF SubscriptExn(layer, loc) # "none" THEN Result(w, None, SubscriptExn(layer, loc))
    ELSE LET w1 == SetCell(w, layer, loc, item) IN
         IF IsActor(item)
         THEN Result(connect_to_map([w1 EXCEPT !.actors = Append(@, item)], item, None, loc),
                     None, "none")
         ELSE Result(w1, None, "none")

\* delete_item that stores None in self.tiles.
delete_item_clears(w, layer, loc) ==
    IF SubscriptExn(layer, loc) # "none" THEN Result(w, None, SubscriptExn(layer, loc))
    ELSE Result(SetCell(w, layer, loc, None), None, "none")

\* RLMap.delete_item: its only statement reads self.tile, an attribute RLMap
\* never sets (the container is self.tiles), so the call raises AttributeError
\* before any subscript is evaluated.
delete_item(w, layer, loc) == Result(w, None, "AttributeError")

\* RLMap.move_item: get_item, the store at new_location, then delete_item.
move_item(w, layer, old, new) ==
    LET g == get_item(w, layer, old) IN
    IF g.exn # "none" THEN Result(w, None, g.exn)
    ELSE IF SubscriptExn(layer, new) # "none" THEN Result(w, None, SubscriptExn(layer, new))
    ELSE LET d == delete_item(SetCell(w, layer, new, g.ret), layer, old) IN
         Result(d.w, None, d.exn)

\* RLMap.entrance_possible(location): the location is on the map and every
\* layer but the actors' holds nothing or a passable occupant there.
entrance_possible(w, loc) ==
    /\ loc \in InBounds
    /\ \A l \in Layers \ {"actors"} :
          \/ w.tiles[l][loc[1]][loc[2]] = None
          \/ Passable(w.tiles[l][loc[1]][loc[2]])

\* The order in which a column lists the layers.
LayerOrder == <<"bg", "constructions", "items", "actors">>

\* RLMap.get_column(location): the occupants of every layer at the location,
\* IndexError for a location outside the map.
get_column(w, loc) ==
    IF loc \notin InBounds THEN Result(w, <<>>, "IndexError")
    ELSE Result(w, SelectSeq([i \in 1 .. Len(LayerOrder) |->
                                 w.tiles[LayerOrder[i]][loc[1]][loc[2]]],
                             LAMBDA e : e # None), "none")

\* RLMap.game_log.append(entry)
log_append(w, entry) == [w EXCEPT !.game_log = Append(@, entry)]

\* ------------------------------------------------------------------- Actor
\* F applied to the value of v, which is computed once.
Once(F(_), v) == CHOOSE r \in {F(x) : x \in {v}} : TRUE

RECURSIVE move(_, _, _, _)
RECURSIVE collide(_, _, _, _)
RECURSIVE scan_column(_, _, _, _, _, _)

\* The scan of Actor.move: the column at the destination, then the loop.
move_scan(w, self, loc, d) ==
    LET col == get_column(w, loc) IN
    IF col.exn # "none" THEN Result(w, FALSE, col.exn)
    ELSE scan_column(w, col.ret, 1, self, FALSE, d)

\* The end of Actor.move, scan the outcome of the scan: the actor enters the
\* destination if passability held before the scan.  The actor's widget is
\* attached by the widget factory.
move_enter(scan, self, loc, passability) ==
    IF passability
    THEN LET mv == move_item(scan.w, scan.w.stamp[self].layer,
                             scan.w.stamp[self].location, loc)
         IN  IF mv.exn # "none" THEN Result(mv.w, None, mv.exn)
             ELSE Result([mv.w EXCEPT !.stamp[self].location = loc], TRUE, "none")
    ELSE Result(scan.w, scan.ret, "none")

\* move without the handler of IndexError around the scan.
move_strict(w, self, loc, d) ==
    IF d > MaxDepth THEN Result(w, None, "RecursionError")
    ELSE IF w.stamp[self].map = None THEN Result(w, None, "AttributeError")
    ELSE Once(LAMBDA scan : IF scan.exn # "none" THEN Result(scan.w, None, scan.exn)
                            ELSE move_enter(scan, self, loc, entrance_possible(w, loc)),
              move_scan(w, self, loc, d))

\* collide in which each fighter deals its damage to the other.
collide_mutual(w, self, other, d) ==
    IF HasFighter(self) /\ HasFighter(other)
    THEN LET w1 == [w EXCEPT !.hp[self] = @ - Damage(other),
                             !.hp[other] = @ - Damage(self)] IN
         IF w1.stamp[self].map = None THEN Result(w1, None, "AttributeError")
         ELSE LET w2 == log_append(w1, <<"hit", other, self, Damage(self)>>) IN
              IF w2.hp[self] <= 0
              THEN LET w3 == log_append(w2, <<"killed", self>>)
                       del == delete_item(w3, "actors", w3.stamp[self].location)
                   IN  IF del.exn # "none" THEN Result(del.w, None, del.exn)
                       ELSE Result(del.w, TRUE, "none")
              ELSE Result(w2, TRUE, "none")
    ELSE IF w.stamp[self].map = None THEN Result(w, None, "AttributeError")
    ELSE IF entrance_possible(w, Fallback)
    THEN move(log_append(w, <<"teleported", self, other>>), self, Fallback, d + 1)
    ELSE Result(log_append(w, <<"teleport_failed", self, other>>), TRUE, "none")

\* Actor.collide(self, other), called at nesting depth d of Actor.move.
collide(w, self, other, d) ==
    IF HasFighter(self) /\ HasFighter(other)
    THEN LET w1 == [w EXCEPT !.hp[self] = @ - Damage(other)] IN
         IF w1.stamp[self].map = None THEN Result(w1, None, "AttributeError")
         ELSE LET w2 == log_append(w1, <<"hit", other, self, Damage(self)>>) IN
              IF w2.hp[self] <= 0
              THEN LET w3 == log_append(w2, <<"killed", self>>)
                       del == delete_item(w3, "actors", w3.stamp[self].location)
                   IN  IF del.exn # "none" THEN Result(del.w, None, del.exn)
                       ELSE Result(del.w, TRUE, "none")
              ELSE Result(w2, TRUE, "none")
    ELSE IF w.stamp[self].map = None THEN Result(w, None, "AttributeError")
    ELSE IF entrance_possible(w, Fallback)
    THEN move(log_append(w, <<"teleported", self, other>>), self, Fallback, d + 1)
    ELSE Result(log_append(w, <<"teleport_failed", self, other>>), TRUE, "none")

\* The loop of Actor.move over the column: items col[i..], collision_occured
\* so far.  An exception of item.collide leaves the loop.
scan_column(w, col, i, self, occured, d) ==
    IF i > Len(col) THEN Result(w, occured, "none")
    ELSE IF ~IsActor(col[i]) THEN scan_column(w, col, i + 1, self, occured, d)
    ELSE Once(LAMBDA c : IF c.exn # "none" THEN Result(c.w, occured, c.exn)
                         ELSE scan_column(c.w, col, i + 1, self, occured \/ c.ret, d),
              collide(w, col[i], self, d))

\* Actor.move(self, location).  The try block around the scan swallows an
\* IndexError, whether get_column or a collision raised it; the interpreter
\* ends a recursion deeper than MaxDepth with RecursionError.
move(w, self, loc, d) ==
    IF d > MaxDepth THEN Result(w, None, "RecursionError")
    ELSE IF w.stamp[self].map = None THEN Result(w, None, "AttributeError")
    ELSE Once(LAMBDA scan : IF scan.exn \notin {"none", "IndexError"}
                            THEN Result(scan.w, None, scan.exn)
                            ELSE move_enter(scan, self, loc, entrance_possible(w, loc)),
              move_scan(w, self, loc, d))

\* Actor.pause
pause(w, self) == Result(w, TRUE, "none")

\* Actor.use_item, Actor.grab, Actor.drop_item: they change nothing of the
\* state modelled here and report r.
actor_stub(w, self, r) == Result(w, r, "none")

\* ------------------------------------------------------------------ Effects
\* RLMap.game_events.append(GameEvent(event_type, actor, location)); a target
\* that is no location is recorded as <<>>.
events_append(w, event_type, actor, loc) ==
    [w EXCEPT !.game_events =
        Append(@, [event_type |-> event_type, actor |-> actor, location |-> loc])]

\* RLMap.extend_log(text)
extend_log(w, entry) == [w EXCEPT !.game_log = Append(@, entry)]

\* FighterComponent.get_damaged(amount) of the fighter of e.
get_damaged(w, e, amount) == [w EXCEPT !.hp[e] = @ - amount]

\* The cells of the map in row order, first to last or (rev) last to first.
CellsInOrder(rev) ==
    [i \in 1 .. Width * Height |->
        LET k == IF rev THEN Width * Height - i ELSE i - 1
        IN  <<k \div Height, k % Height>>]

\* RLMap.get_neighbour_coordinates(location, return_query=True): the location
\* and the cells of the map around it.  The order is not fixed by anything the
\* callers rely on: rev chooses between the two row orders.
get_neighbour_coordinates(loc, rev) ==
    SelectSeq(CellsInOrder(rev),
              LAMBDA c : c[1] - loc[1] \in -1 .. 1 /\ c[2] - loc[2] \in -1 .. 1)

\* What an effect is applied to: a location, an actor, or nothing (None).
AtLocation(loc) == [kind |-> "location", loc |-> loc, actor |-> None]
AtActor(a) == [kind |-> "actor", loc |-> <<>>, actor |-> a]
NoTarget == [kind |-> None, loc |-> <<>>, actor |-> None]

\* The effects the item factory builds: explode (rocket), spawn_construction
\* of a mine (landmine), heal (bottle) and restore_ammo (ammo).  entity, amount
\* and range hold effect_value: a construction, a number, or the list heal
\* chooses from.
NoEffect == [class |-> None, effect_type |-> None, entity |-> None, amount |-> 0,
             range |-> {}, require_targeting |-> FALSE, event_type |-> None]

\* What an event records as the location of a target.
Where(target) == IF target.kind = "actor" THEN <<target.actor>> ELSE target.loc

Rocket == [class |-> "tile", effect_type |-> "explode", entity |-> None, amount |-> 5,
           range |-> {}, require_targeting |-> TRUE, event_type |-> "rocket_shot"]
Landmine == [class |-> "tile", effect_type |-> "spawn_construction", entity |-> "mine",
             amount |-> 0, range |-> {}, require_targeting |-> FALSE, event_type |-> None]
Bottle == [class |-> "fighter", effect_type |-> "heal", entity |-> None, amount |-> 0,
           range |-> {2, 3}, require_targeting |-> FALSE, event_type |-> None]
Ammo == [class |-> "fighter", effect_type |-> "restore_ammo", entity |-> None, amount |-> 5,
         range |-> {}, require_targeting |-> FALSE, event_type |-> None]

\* FighterTargetedEffect.affect(actor); pick is what choice(effect_value)
\* returns.  A target that is no actor has no fighter attribute, and the
\* fighter of an actor without one is None.
\* The smaller of two numbers.
Min(a, b) == IF a < b THEN a ELSE b

\* affect that stops at max_hp and max_ammo.
fighter_affect_capped(w, effect, target, pick) ==
    IF effect.effect_type \notin {"heal", "restore_ammo"} THEN Result(w, None, "none")
    ELSE IF target.kind # "actor" \/ ~HasFighter(target.actor)
    THEN Result(w, None, "AttributeError")
    ELSE IF effect.effect_type = "heal"
    THEN Result([w EXCEPT !.hp[target.actor] = Min(@ + pick, max_hp(target.actor))],
                TRUE, "none")
    ELSE Result([w EXCEPT !.ammo[target.actor] = Min(@ + effect.amount,
                                                     max_ammo(target.actor))],
                TRUE, "none")

fighter_affect(w, effect, target, pick) ==
    IF effect.effect_type \notin {"heal", "restore_ammo"} THEN Result(w, None, "none")
    ELSE IF target.kind # "actor" \/ ~HasFighter(target.actor)
    THEN Result(w, None, "AttributeError")
    ELSE IF effect.effect_type = "heal"
    THEN Result([w EXCEPT !.hp[target.actor] = @ + pick], TRUE, "none")
    ELSE Result([w EXCEPT !.ammo[target.actor] = @ + effect.amount], TRUE, "none")

RECURSIVE damage_column(_, _, _, _, _)
\* The first loop of explode over the column of a tile, victims col[i..]:
\* every fighter is damaged by amount, a Construction on the tile of the
\* explosion (ground_zero) by twice its max_hp before.
damage_column(w, col, i, ground_zero, amount) ==
    IF i > Len(col) THEN w
    ELSE IF ~HasFighter(col[i]) THEN damage_column(w, col, i + 1, ground_zero, amount)
    ELSE IF IsConstruction(col[i]) /\ ground_zero
    THEN damage_column(get_damaged(get_damaged(w, col[i], max_hp(col[i]) * 2), col[i], amount),
                       col, i + 1, ground_zero, amount)
    ELSE damage_column(get_damaged(w, col[i], amount), col, i + 1, ground_zero, amount)

RECURSIVE destroy_items(_, _, _, _, _, _)
\* The second loop of explode over the column of a tile: an Item is deleted
\* from the items layer when random() > 0.5 (lucky) or on the tile of the
\* explosion (always), and reported destroyed.  ret is destroyed_items.
destroy_items(w, col, i, tile, doomed, destroyed) ==
    IF i > Len(col) THEN Result(w, destroyed, "none")
    ELSE IF ~(IsItem(col[i]) /\ doomed) THEN destroy_items(w, col, i + 1, tile, doomed, destroyed)
    ELSE LET del == delete_item(w, "items", tile) IN
         IF del.exn # "none" THEN Result(del.w, destroyed, del.exn)
         ELSE destroy_items(events_append(del.w, "was_destroyed", col[i], tile),
                            col, i + 1, tile, doomed, TRUE)

RECURSIVE blast(_, _, _, _, _, _, _)
\* The loop of explode over the tiles cells[i..]: both loops over the column
\* of each.
blast(w, cells, i, loc, amount, lucky, destroyed) ==
    IF i > Len(cells) THEN Result(w, destroyed, "none")
    ELSE Once(LAMBDA r : IF r.exn # "none" THEN r
                         ELSE blast(r.w, cells, i + 1, loc, amount, lucky, r.ret),
              destroy_items(damage_column(w, get_column(w, cells[i]).ret, 1,
                                          cells[i] = loc, amount),
                            get_column(w, cells[i]).ret, 1, cells[i],
                            lucky \/ cells[i] = loc, destroyed))

\* dig_hole that starts the events afresh.
dig_hole_flush(w, loc, destroyed) ==
    LET add == add_item(w, "hole", "constructions", loc) IN
    IF add.exn # "none" THEN Result(add.w, None, add.exn)
    ELSE LET w1 == events_append([add.w EXCEPT !.game_events = <<>>],
                                 "construction_spawned", "hole", loc) IN
         Result(IF destroyed THEN extend_log(w1, <<"items_destroyed">>) ELSE w1, TRUE, "none")

\* The end of explode: the hole, its event, the entry about destroyed items.
dig_hole(w, loc, destroyed) ==
    LET add == add_item(w, "hole", "constructions", loc) IN
    IF add.exn # "none" THEN Result(add.w, None, add.exn)
    ELSE LET w1 == events_append(add.w, "construction_spawned", "hole", loc) IN
         Result(IF destroyed THEN extend_log(w1, <<"items_destroyed">>) ELSE w1, TRUE, "none")

\* spawn_construction that does not look at the cell first.
spawn_construction_over(w, effect, target) ==
    IF target.kind # "location" THEN Result(w, None, "TypeError")
    ELSE LET g == get_item(w, "constructions", target.loc) IN
         IF g.exn # "none" THEN Result(w, None, g.exn)
         ELSE Result(events_append(add_item(w, effect.entity, "constructions", target.loc).w,
                                   "construction_spawned", effect.entity, target.loc),
                     TRUE, "none")

\* spawn_construction that reports nothing.
spawn_construction_silent(w, effect, target) ==
    IF target.kind # "location" THEN Result(w, None, "TypeError")
    ELSE LET g == get_item(w, "constructions", target.loc) IN
         IF g.exn # "none" THEN Result(w, None, g.exn)
         ELSE IF g.ret # None THEN Result(w, FALSE, "none")
         ELSE Result(add_item(w, effect.entity, "constructions", target.loc).w, TRUE, "none")

\* The spawn_construction branch of TileTargetedEffect.affect: the entity is
\* added and reported when get_item finds the cell of 'constructions' empty.
spawn_construction(w, effect, target) ==
    IF target.kind # "location" THEN Result(w, None, "TypeError")
    ELSE LET g == get_item(w, "constructions", target.loc) IN
         IF g.exn # "none" THEN Result(w, None, g.exn)
         ELSE IF g.ret # None THEN Result(w, FALSE, "none")
         ELSE Result(events_append(add_item(w, effect.entity, "constructions", target.loc).w,
                                   "construction_spawned", effect.entity, target.loc),
                     TRUE, "none")

\* TileTargetedEffect.affect(map, location); lucky is random() > 0.5 and rev
\* the order of get_neighbour_coordinates.  A location that is no pair of
\* numbers cannot be subscripted (get_item) nor have neighbours.
tile_affect(w, effect, target, lucky, rev) ==
    IF effect.effect_type = "spawn_construction" THEN spawn_construction(w, effect, target)
    ELSE IF effect.effect_type = "explode"
    THEN LET w1 == events_append(w, "exploded", None, Where(target)) IN
         IF target.kind # "location" THEN Result(w1, None, "TypeError")
         ELSE Once(LAMBDA r : IF r.exn # "none" THEN Result(r.w, None, r.exn)
                              ELSE dig_hole(r.w, target.loc, r.ret),
                   blast(w1, get_neighbour_coordinates(target.loc, rev), 1, target.loc,
                         effect.amount, lucky, FALSE))
    ELSE Result(w, None, "none")

\* effect.affect(...) called with the arguments of the other kind of effect:
\* a FighterTargetedEffect takes one argument and is handed (map, location).
affect(w, effect, target, pick, lucky, rev) ==
    IF effect.class = "fighter"
    THEN IF target.kind = "actor" THEN fighter_affect(w, effect, target, pick)
         ELSE Result(w, None, "TypeError")
    ELSE tile_affect(w, effect, target, lucky, rev)

\* InventoryComponent.remove(item)
remove(w, owner, item) == [w EXCEPT !.inventory[owner] = @ \ {item}]

\* PotionTypeItem.use(target) of an item in the inventory of user.
use(w, user, item, target, pick, lucky, rev) ==
    LET w1 == extend_log(w, <<"used", user, item.effect_type>>) IN
    Once(LAMBDA r : IF r.exn # "none" THEN Result(r.w, None, r.exn)
                    ELSE IF r.ret = TRUE THEN Result(remove(r.w, user, item), TRUE, "none")
                    ELSE Result(r.w, FALSE, "none"),
         IF item.class = "fighter"
         THEN fighter_affect(w1, item, IF target.kind = None THEN AtActor(user) ELSE target,
                             pick)
         ELSE IF target.kind = None
         THEN IF ~item.require_targeting
              THEN tile_affect(w1, item, AtLocation(w1.stamp[user].location), lucky, rev)
              ELSE Result(extend_log(w1, <<"better_not">>), FALSE, "none")
         ELSE tile_affect(IF item.event_type # None
                          THEN events_append(w1, item.event_type, user, Where(target))
                          ELSE w1,
                          item, target, lucky, rev))

\* -------------------------------------------------------------- Controller
\* Command without the assertion on command_type.
Command_unchecked(command_type, command_value) ==
    [ret |-> [command_type |-> command_type, command_value |-> command_value], exn |-> "none"]

\* Command(command_type, command_value): the object, or AssertionError.
Command(command_type, command_value) ==
    IF command_type \in acceptable_commands
    THEN [ret |-> [command_type |-> command_type, command_value |-> command_value],
          exn |-> "none"]
    ELSE [ret |-> NoCommand, exn |-> "AssertionError"]

\* PlayerController.accept_command: the new last_command and the outcome.
\* None in place of a Command has no command_type.
accept_command(lc, command) ==
    IF command = NoCommand
    THEN [last_command |-> lc, ret |-> None, exn |-> "AttributeError"]
    ELSE IF command.command_type \notin accepted_command_types
    THEN [last_command |-> lc, ret |-> None, exn |-> "ValueError"]
    ELSE [last_command |-> command, ret |-> TRUE, exn |-> "none"]

\* PlayerController.commands: the symbol -> Command mapping.  __init__ sets it
\* to {} and nothing fills it (load_commands is commented out).
commands == [k \in {} |-> NoCommand]

\* PlayerController.take_keycode(keycode), key the symbol keycode[1]: the
\* subscript self.commands[key] raises KeyError for a symbol not mapped.
take_keycode(lc, key) ==
    IF key \notin DOMAIN commands
    THEN [last_command |-> lc, ret |-> None, exn |-> "KeyError"]
    ELSE LET r == accept_command(lc, commands[key]) IN
         IF r.exn # "none" THEN r
         ELSE [last_command |-> r.last_command, ret |-> TRUE, exn |-> "none"]

\* Actor.pass_command(keycode) of an actor whose controller is a
\* PlayerController (player) or has no take_keycode: AttributeError becomes
\* NotImplementedError, any other exception passes through.
pass_command(player, lc, key) ==
    LET r == IF player THEN take_keycode(lc, key)
             ELSE [last_command |-> lc, ret |-> None, exn |-> "AttributeError"]
    IN  IF r.exn = "AttributeError"
        THEN [last_command |-> r.last_command, ret |-> None, exn |-> "NotImplementedError"]
        ELSE [last_command |-> r.last_command, ret |-> None, exn |-> r.exn]

\* A walk payload the two additions of call_actor_method accept.
IsOffset(v) == Len(v) = 2

\* dispatch that hands the walk payload to move as the destination.
dispatch_no_offset(command, location) ==
    LET t == command.command_type
        v == command.command_value
    IN  IF t = "wait" THEN [op |-> "pause", arg |-> <<>>, exn |-> "none"]
        ELSE IF t = "walk"
        THEN IF ~IsOffset(v) THEN [op |-> "move", arg |-> <<>>, exn |-> "TypeError"]
             ELSE [op |-> "move", arg |-> v, exn |-> "none"]
        ELSE IF t = "use_item"
        THEN IF v = NoValue THEN [op |-> "use_item", arg |-> <<>>, exn |-> "TypeError"]
             ELSE [op |-> "use_item", arg |-> <<v[1]>>, exn |-> "none"]
        ELSE IF t = "grab" THEN [op |-> "grab", arg |-> <<>>, exn |-> "none"]
        ELSE IF t = "drop_item"
        THEN IF v = NoValue THEN [op |-> "drop_item", arg |-> <<>>, exn |-> "TypeError"]
             ELSE [op |-> "drop_item", arg |-> <<v[1]>>, exn |-> "none"]
        ELSE [op |-> "none", arg |-> <<>>, exn |-> "none"]

\* The actor method call_actor_method chooses for a command, with its argument;
\* exn is the exception raised while the argument is evaluated.  No branch of
\* the chain matches any other command_type (op "none").
dispatch(command, location) ==
    LET t == command.command_type
        v == command.command_value
    IN  IF t = "wait" THEN [op |-> "pause", arg |-> <<>>, exn |-> "none"]
        ELSE IF t = "walk"
        THEN IF Len(location) < 2 THEN [op |-> "move", arg |-> <<>>, exn |-> "IndexError"]
             ELSE IF ~IsOffset(v) THEN [op |-> "move", arg |-> <<>>, exn |-> "TypeError"]
             ELSE [op |-> "move", arg |-> <<location[1] + v[1], location[2] + v[2]>>,
                   exn |-> "none"]
        ELSE IF t = "use_item"
        THEN IF v = NoValue THEN [op |-> "use_item", arg |-> <<>>, exn |-> "TypeError"]
             ELSE [op |-> "use_item", arg |-> <<v[1]>>, exn |-> "none"]
        ELSE IF t = "grab" THEN [op |-> "grab", arg |-> <<>>, exn |-> "none"]
        ELSE IF t = "drop_item"
        THEN IF v = NoValue THEN [op |-> "drop_item", arg |-> <<>>, exn |-> "TypeError"]
             ELSE [op |-> "drop_item", arg |-> <<v[1]>>, exn |-> "none"]
        ELSE [op |-> "none", arg |-> <<>>, exn |-> "none"]

\* The call of the chosen actor method.
invoke(w, self, call, r) ==
    IF call.op = "pause" THEN pause(w, self)
    ELSE IF call.op = "move" THEN move(w, self, call.arg, 0)
    ELSE actor_stub(w, self, r)

\* call_actor_method that answers False, without raising, when the controller
\* has no actor or no pending command.
call_actor_method_lenient(w, self, lc, r) ==
    IF ~IsActor(self) \/ lc \in {UnsetCommand, NoCommand}
    THEN [w |-> w, last_command |-> lc, calls |-> <<>>, ret |-> FALSE, exn |-> "none"]
    ELSE LET call == dispatch(lc, w.stamp[self].location) IN
         IF call.exn # "none"
         THEN [w |-> w, last_command |-> lc, calls |-> <<>>, ret |-> None, exn |-> call.exn]
         ELSE IF call.op = "none"
         THEN [w |-> w, last_command |-> NoCommand, calls |-> <<>>, ret |-> None,
               exn |-> "UnboundLocalError"]
         ELSE LET res == invoke(w, self, call, r)
                  made == <<[op |-> call.op, arg |-> call.arg]>>
              IN  IF res.exn # "none"
                  THEN [w |-> res.w, last_command |-> lc, calls |-> made,
                        ret |-> None, exn |-> res.exn]
                  ELSE [w |-> res.w, last_command |-> NoCommand, calls |-> made,
                        ret |-> res.ret, exn |-> "none"]

\* PlayerController.call_actor_method of a controller whose actor attribute is
\* self (an actor, or Unset when the controller was never attached), lc its
\* last_command: the world, the new last_command, the actor methods called and
\* the outcome.  last_command is cleared only after the actor method has
\* returned; when no branch matched, `return r` raises after it.
call_actor_method(w, self, lc, r) ==
    IF ~IsActor(self)
    THEN [w |-> w, last_command |-> lc, calls |-> <<>>, ret |-> None, exn |-> "AttributeError"]
    ELSE IF lc \in {UnsetCommand, NoCommand}
    THEN [w |-> w, last_command |-> lc, calls |-> <<>>, ret |-> None, exn |-> "AttributeError"]
    ELSE LET call == dispatch(lc, w.stamp[self].location) IN
         IF call.exn # "none"
         THEN [w |-> w, last_command |-> lc, calls |-> <<>>, ret |-> None, exn |-> call.exn]
         ELSE IF call.op = "none"
         THEN [w |-> w, last_command |-> NoCommand, calls |-> <<>>, ret |-> None,
               exn |-> "UnboundLocalError"]
         ELSE LET res == invoke(w, self, call, r)
                  made == <<[op |-> call.op, arg |-> call.arg]>>
              IN  IF res.exn # "none"
                  THEN [w |-> res.w, last_command |-> lc, calls |-> made,
                        ret |-> None, exn |-> res.exn]
                  ELSE [w |-> res.w, last_command |-> NoCommand, calls |-> made,
                        ret |-> res.ret, exn |-> "none"]

\* The actors driven by a PlayerController; the others have an AIController.
Players == {"pc"}

\* RLMap.get_neighbours(layer, location): the occupants of the eight cells
\* around the location on the layer; cells off the map are skipped.
get_neighbours(w, layer, loc) ==
    {w.tiles[layer][c[1]][c[2]] :
        c \in {c \in InBounds : /\ c # loc
                                /\ c[1] - loc[1] \in -1 .. 1
                                /\ c[2] - loc[2] \in -1 .. 1
                                /\ w.tiles[layer][c[1]][c[2]] # None}}

\* AIController.call_actor_method of the controller of actor self; pick is
\* the neighbour random.choice returns.  The result has the shape of
\* call_actor_method; an AIController has no use for last_command.
ai_call_actor_method(w, self, lc, pick) ==
    IF ~IsActor(self) \/ w.stamp[self].map = None \/ Len(w.stamp[self].location) < 2
    THEN [w |-> w, last_command |-> lc, calls |-> <<>>, ret |-> None,
          exn |-> IF ~IsActor(self) \/ w.stamp[self].map = None
                  THEN "AttributeError" ELSE "IndexError"]
    ELSE LET at == w.stamp[self].location
             neighbours == get_neighbours(w, "actors", at)
             to == IF neighbours # {} THEN w.stamp[pick].location
                   ELSE <<at[1] + 1, at[2] + 1>>
             res == move(w, self, to, 0)
         IN  [w |-> res.w, last_command |-> lc, calls |-> <<[op |-> "move", arg |-> to]>>,
              ret |-> res.ret, exn |-> res.exn]

\* make_turn without the check of the fighter's hp.
make_turn_unguarded(w, self, lc, pick, r) ==
    IF self \in Players THEN call_actor_method(w, self, lc, r)
    ELSE ai_call_actor_method(w, self, lc, pick)

\* Actor.make_turn: False for a fighter with hp <= 0, otherwise what the
\* controller's call_actor_method returns (PlayerController for the player,
\* AIController for the others).
make_turn(w, self, lc, pick, r) ==
    IF HasFighter(self) /\ w.hp[self] <= 0
    THEN [w |-> w, last_command |-> lc, calls |-> <<>>, ret |-> FALSE, exn |-> "none"]
    ELSE IF self \in Players THEN call_actor_method(w, self, lc, r)
    ELSE ai_call_actor_method(w, self, lc, pick)

\* What random.choice may return to the controller of actor a on map w: one of
\* the neighbours, None when there is none and it is not called.
choices(w, a) ==
    IF a \in Players \/ w.stamp[a].map = None \/ Len(w.stamp[a].location) < 2 THEN {None}
    ELSE IF get_neighbours(w, "actors", w.stamp[a].location) = {} THEN {None}
    ELSE get_neighbours(w, "actors", w.stamp[a].location)

RECURSIVE turn_loop(_, _, _, _, _, _)
\* The loop of RLMap.process_turn from the i-th actor of the roster on: the
\* player is passed the key, then the actor makes its turn; an exception of
\* either leaves the loop.  lcs are the controllers' commands, picks[a] what
\* random.choice returns in the turn of a, acted the turns made so far.
turn_loop(w, lcs, i, key, picks, acted) ==
    IF i > Len(w.actors)
    THEN [w |-> w, last_command |-> lcs, calls |-> acted, exn |-> "none", fair |-> TRUE]
    ELSE LET a == w.actors[i] IN
         Once(LAMBDA pc :
                IF pc.exn # "none"
                THEN [w |-> w, last_command |-> [lcs EXCEPT ![a] = pc.last_command],
                      calls |-> acted, exn |-> pc.exn, fair |-> TRUE]
                ELSE IF picks[a] \notin choices(w, a)
                THEN [w |-> w, last_command |-> lcs, calls |-> acted, exn |-> "none",
                      fair |-> FALSE]
                ELSE Once(LAMBDA mt :
                            IF mt.exn # "none"
                            THEN [w |-> mt.w,
                                  last_command |-> [lcs EXCEPT ![a] = mt.last_command],
                                  calls |-> Append(acted, [op |-> "make_turn", arg |-> <<a>>]),
                                  exn |-> mt.exn, fair |-> TRUE]
                            ELSE turn_loop(mt.w, [lcs EXCEPT ![a] = mt.last_command], i + 1,
                                           key, picks,
                                           Append(acted, [op |-> "make_turn", arg |-> <<a>>])),
                          make_turn(w, a, pc.last_command, picks[a], FALSE)),
              IF a \in Players THEN pass_command(TRUE, lcs[a], key)
              ELSE [last_command |-> lcs[a], ret |-> None, exn |-> "none"])

\* RLMap.process_turn(keycode); fair tells whether picks are values
\* random.choice can return.
process_turn(w, lcs, key, picks) == turn_loop(w, lcs, 1, key, picks, <<>>)

\* --------------------------------------------------------------- the calls
NoCall == [op |-> "init", layer |-> None, loc |-> <<>>, to |-> <<>>, item |-> None,
           prev |-> None, ret |-> None, exn |-> "none", ctype |-> None,
           cvalue |-> NoValue, pending |-> NoCommand, actor |-> None, at |-> <<>>,
           calls |-> <<>>, key |-> None, effect |-> NoEffect, target |-> NoTarget]

\* A PlayerController that was constructed and never handed to an Actor.
Loose == "loose"

\* The controllers: the one of each actor (named after it) and the loose one.
Controllers == Actors \cup {Loose}

\* Controller.actor, assigned by Actor.attach_controller only.
ActorOf(c) == IF c \in Actors THEN c ELSE Unset

\* PlayerController.__init__ runs object.__init__ (super(Controller, self)), so
\* last_command is not assigned; Controller.__init__ sets it to None.
FreshControllers ==
    [c \in Controllers |-> IF c \in Players \cup {Loose} THEN UnsetCommand ELSE NoCommand]

EmptyWorld == [tiles |-> EmptyTiles, actors |-> <<>>, stamp |-> [a \in Actors |-> NoStamp],
               hp |-> FighterInit, game_log |-> <<>>, game_events |-> <<>>,
               ammo |-> AmmoInit, inventory |-> [a \in Actors |-> {}]]

Init ==
    /\ tiles = EmptyTiles
    /\ actors = <<>>
    /\ stamp = [a \in Actors |-> NoStamp]
    /\ hp = FighterInit
    /\ game_log = <<>>
    /\ game_events = <<>>
    /\ ammo = AmmoInit
    /\ inventory = [a \in Actors |-> {}]
    /\ last_command = FreshControllers
    /\ cmd = NoCommand
    /\ last = NoCall
    /\ gridOps = 0
    /\ ctlOps = 0
    /\ newOps = 0

\* The occupant a direct read of the cell finds, None when the subscripts raise.
Occupant(w, layer, loc) ==
    IF SubscriptExn(layer, loc) = "none" THEN w.tiles[layer][CellX(loc)][CellY(loc)] ELSE None

Commit(r) ==
    /\ tiles' = r.w.tiles
    /\ actors' = r.w.actors
    /\ stamp' = r.w.stamp
    /\ hp' = r.w.hp
    /\ game_log' = r.w.game_log
    /\ game_events' = r.w.game_events
    /\ ammo' = r.w.ammo
    /\ inventory' = r.w.inventory

AddItem(item, layer, loc) ==
    /\ gridOps < MaxGridOps
    /\ LET r == add_item(World, item, layer, loc) IN
       /\ Commit(r)
       /\ last' = [NoCall EXCEPT !.op = "add_item", !.layer = layer, !.loc = loc,
                                 !.item = item, !.prev = Occupant(World, layer, loc),
                                 !.ret = r.ret, !.exn = r.exn]
    /\ gridOps' = gridOps + 1
    /\ UNCHANGED <<last_command, cmd, ctlOps, newOps>>

DeleteItem(layer, loc) ==
    /\ gridOps < MaxGridOps
    /\ LET r == delete_item(World, layer, loc) IN
       /\ Commit(r)
       /\ last' = [NoCall EXCEPT !.op = "delete_item", !.layer = layer, !.loc = loc,
                                 !.prev = Occupant(World, layer, loc),
                                 !.ret = r.ret, !.exn = r.exn]
    /\ gridOps' = gridOps + 1
    /\ UNCHANGED <<last_command, cmd, ctlOps, newOps>>

MoveItem(layer, old, new) ==
    /\ gridOps < MaxGridOps
    /\ LET r == move_item(World, layer, old, new) IN
       /\ Commit(r)
       /\ last' = [NoCall EXCEPT !.op = "move_item", !.layer = layer, !.loc = old,
                                 !.to = new, !.prev = Occupant(World, layer, old),
                                 !.ret = r.ret, !.exn = r.exn]
    /\ gridOps' = gridOps + 1
    /\ UNCHANGED <<last_command, cmd, ctlOps, newOps>>

GetItem(layer, loc) ==
    /\ gridOps < MaxGridOps
    /\ gridOps' = gridOps + 1
    /\ LET r == get_item(World, layer, loc) IN
       last' = [NoCall EXCEPT !.op = "get_item", !.layer = layer, !.loc = loc,
                              !.ret = r.ret, !.exn = r.exn]
    /\ UNCHANGED <<tiles, actors, stamp, hp, game_log, game_events, ammo, inventory, last_command, cmd, ctlOps, newOps>>

HasItem(layer, loc) ==
    /\ gridOps < MaxGridOps
    /\ gridOps' = gridOps + 1
    /\ LET r == has_item(World, layer, loc) IN
       last' = [NoCall EXCEPT !.op = "has_item", !.layer = layer, !.loc = loc,
                              !.ret = r.ret, !.exn = r.exn]
    /\ UNCHANGED <<tiles, actors, stamp, hp, game_log, game_events, ammo, inventory, last_command, cmd, ctlOps, newOps>>

\* The caller constructs a Command.
NewCommand(t, v) ==
    /\ newOps < MaxCommands
    /\ LET r == Command(t, v) IN
       /\ cmd' = IF r.exn = "none" THEN r.ret ELSE cmd
       /\ last' = [NoCall EXCEPT !.op = "Command", !.ctype = t, !.cvalue = v,
                                 !.pending = r.ret, !.exn = r.exn]
    /\ newOps' = newOps + 1
    /\ UNCHANGED <<tiles, actors, stamp, hp, game_log, game_events, ammo, inventory, last_command, gridOps, ctlOps>>

\* The caller hands what it holds, a Command or None, to controller a.
AcceptCommand(a) ==
    /\ ctlOps < MaxCtlOps
    /\ LET r == accept_command(last_command[a], cmd) IN
       /\ last_command' = [last_command EXCEPT ![a] = r.last_command]
       /\ last' = [NoCall EXCEPT !.op = "accept_command", !.actor = a,
                                 !.pending = cmd, !.exn = r.exn]
    /\ ctlOps' = ctlOps + 1
    /\ UNCHANGED <<tiles, actors, stamp, hp, game_log, game_events, ammo, inventory, cmd, gridOps, newOps>>

\* The caller passes the symbol of a key to controller a.
TakeKeycode(a, key) ==
    /\ ctlOps < MaxCtlOps
    /\ LET r == take_keycode(last_command[a], key) IN
       /\ last_command' = [last_command EXCEPT ![a] = r.last_command]
       /\ last' = [NoCall EXCEPT !.op = "take_keycode", !.actor = a, !.key = key,
                                 !.pending = last_command[a], !.ret = r.ret, !.exn = r.exn]
    /\ ctlOps' = ctlOps + 1
    /\ UNCHANGED <<tiles, actors, stamp, hp, game_log, game_events, ammo, inventory, cmd, gridOps, newOps>>

\* The map passes the symbol of a key to actor a (RLMap.process_turn).
PassCommand(a, key) ==
    /\ ctlOps < MaxCtlOps
    /\ LET r == pass_command(a \in Players, last_command[a], key) IN
       /\ last_command' = [last_command EXCEPT ![a] = r.last_command]
       /\ last' = [NoCall EXCEPT !.op = "pass_command", !.actor = a, !.key = key,
                                 !.pending = last_command[a], !.ret = r.ret, !.exn = r.exn]
    /\ ctlOps' = ctlOps + 1
    /\ UNCHANGED <<tiles, actors, stamp, hp, game_log, game_events, ammo, inventory, cmd, gridOps, newOps>>

\* Controller a resolves; r is what use_item, grab or drop_item reports when
\* that is the method called.
Resolve(a, r) ==
    /\ ctlOps < MaxCtlOps
    /\ LET res == call_actor_method(World, ActorOf(a), last_command[a], r) IN
       /\ Commit(res)
       /\ last_command' = [last_command EXCEPT ![a] = res.last_command]
       /\ last' = [NoCall EXCEPT !.op = "call_actor_method", !.actor = a,
                                 !.pending = last_command[a],
                                 !.at = IF IsActor(a) THEN stamp[a].location ELSE <<>>,
                                 !.calls = res.calls, !.ret = res.ret, !.exn = res.exn]
    /\ ctlOps' = ctlOps + 1
    /\ UNCHANGED <<cmd, gridOps, newOps>>

\* The neighbours random.choice may return for actor a, None when it is not
\* called.
Picks(a) ==
    IF stamp[a].map = None \/ Len(stamp[a].location) < 2 THEN {None}
    ELSE IF get_neighbours(World, "actors", stamp[a].location) = {} THEN {None}
    ELSE get_neighbours(World, "actors", stamp[a].location)

\* Actor a makes its turn.
MakeTurn(a, pick) ==
    /\ ctlOps < MaxCtlOps
    /\ LET res == make_turn(World, a, last_command[a], pick, FALSE) IN
       /\ Commit(res)
       /\ last_command' = [last_command EXCEPT ![a] = res.last_command]
       /\ last' = [NoCall EXCEPT !.op = "make_turn", !.actor = a,
                                 !.pending = last_command[a], !.at = stamp[a].location,
                                 !.calls = res.calls, !.ret = res.ret, !.exn = res.exn]
    /\ ctlOps' = ctlOps + 1
    /\ UNCHANGED <<cmd, gridOps, newOps>>

\* a.collide(b), called directly.
Collide(a, b) ==
    /\ ctlOps < MaxCtlOps
    /\ LET res == collide(World, a, b, 0) IN
       /\ Commit(res)
       /\ last' = [NoCall EXCEPT !.op = "collide", !.actor = a, !.item = b,
                                 !.at = stamp[a].location, !.ret = res.ret, !.exn = res.exn]
    /\ ctlOps' = ctlOps + 1
    /\ UNCHANGED <<last_command, cmd, gridOps, newOps>>

\* a.move(loc), called directly.
Move(a, loc) ==
    /\ gridOps < MaxGridOps
    /\ LET res == move(World, a, loc, 0) IN
       /\ Commit(res)
       /\ last' = [NoCall EXCEPT !.op = "move", !.actor = a, !.to = loc,
                                 !.at = stamp[a].location, !.ret = res.ret, !.exn = res.exn]
    /\ gridOps' = gridOps + 1
    /\ UNCHANGED <<last_command, cmd, ctlOps, newOps>>

Next ==
    \/ \E item \in InputItems, layer \in InputLayers, loc \in InputLocs :
          AddItem(item, layer, loc)
    \/ \E layer \in InputLayers, loc \in InputLocs : DeleteItem(layer, loc)
    \/ \E layer \in InputLayers, old \in InputLocs, new \in InputLocs :
          MoveItem(layer, old, new)
    \/ \E layer \in InputLayers, loc \in InputLocs : GetItem(layer, loc)
    \/ \E layer \in InputLayers, loc \in InputLocs : HasItem(layer, loc)

Spec == Init /\ [][Next]_vars

\* ------------------------------------------------- a populated map, driven
\* The cells in the order the map loader fills them.
CellSeq == [i \in 1 .. Width * Height |-> <<(i - 1) \div Height, (i - 1) % Height>>]

RECURSIVE Populate(_, _, _)
\* add_item for placements[i..], each <<item, layer, location>>.
Populate(w, placements, i) ==
    IF i > Len(placements) THEN w
    ELSE Populate(add_item(w, placements[i][1], placements[i][2], placements[i][3]).w,
                  placements, i + 1)

\* The map as the loader builds it: a passable tile under every cell, then
\* the given walls and actors.
Scenario(extra) ==
    Populate(EmptyWorld, [i \in 1 .. Width * Height |-> <<"floor", "bg", CellSeq[i]>>] \o extra, 1)

\* A wall on the cell east of the origin or on the fallback cell, or none.
Placements ==
    {<<>>} \cup {<<<<"wall", "bg", c>>>> : c \in {<<1, 0>>, Fallback}}

\* The player at the origin or on the east edge, alone or with a second actor
\* east of the origin or on the fallback cell.
Casts ==
    {<<<<"pc", "actors", c>>>> : c \in {<<0, 0>>, <<Width - 1, 0>>}}
    \cup {<<<<"pc", "actors", c>>, <<o, "actors", c2>>>> :
              c \in {<<0, 0>>, <<Width - 1, 0>>}, c2 \in {<<1, 0>>, Fallback},
              o \in {"thug", "mute"}}

InitCtl ==
    /\ \E walls \in Placements, cast \in Casts :
          LET w == Scenario(walls \o cast) IN
          /\ tiles = w.tiles
          /\ actors = w.actors
          /\ stamp = w.stamp
          /\ hp = w.hp
          /\ game_log = w.game_log
          /\ game_events = w.game_events
          /\ ammo = w.ammo
          /\ inventory = w.inventory
    /\ last_command = FreshControllers
    /\ cmd = NoCommand
    /\ last = NoCall
    /\ gridOps = 0
    /\ ctlOps = 0
    /\ newOps = 0

NextCtl ==
    \/ \E t \in InputTypes, v \in InputValues : NewCommand(t, v)
    \/ \E a \in Players \cup {Loose} : AcceptCommand(a)
    \/ \E a \in Players \cup {Loose}, r \in BOOLEAN : Resolve(a, r)
    \/ \E a \in Players \cup {Loose}, key \in InputKeys : TakeKeycode(a, key)
    \/ \E a \in {"pc", "thug"}, key \in InputKeys : PassCommand(a, key)

SpecCtl == InitCtl /\ [][NextCtl]_vars

\* ------------------------------------------------ actors taking their turns
\* The hp fighters are constructed with: the default, or what one hit takes.
InputHps == {DefaultDamage, DefaultHp}

\* The player at the origin and a second actor east of it or on the fallback
\* cell.
PairCasts == {cast \in Casts : Len(cast) = 2 /\ cast[1][3] = <<0, 0>>}

\* The actors the cast places.
Placed == {a \in Actors : stamp[a].map # None}

\* What the player's controller holds at the start: nothing, or a walk east.
Pendings ==
    {UnsetCommand, accept_command(UnsetCommand, Command("walk", <<1, 0>>).ret).last_command}

\* The casts of the turns: the pairs, the thug next to the mute with and
\* without the player, and the thug alone.
TurnCasts ==
    PairCasts
    \cup {<<<<"thug", "actors", <<1, 0>>>>, <<"mute", "actors", <<1, 1>>>>>>,
          <<<<"pc", "actors", <<0, 0>>>>, <<"thug", "actors", <<1, 0>>>>,
            <<"mute", "actors", <<1, 1>>>>>>,
          <<<<"thug", "actors", <<0, 0>>>>>>}

InitTurn ==
    /\ \E walls \in Placements, cast \in TurnCasts, h \in InputHps :
          LET w == Scenario(walls \o cast) IN
          /\ tiles = w.tiles
          /\ actors = w.actors
          /\ stamp = w.stamp
          /\ hp = [e \in Entities |-> IF HasFighter(e) THEN h ELSE 0]
          /\ game_log = w.game_log
          /\ game_events = w.game_events
          /\ ammo = w.ammo
          /\ inventory = w.inventory
    /\ \E lc \in Pendings :
          last_command = [c \in Controllers |-> IF c \in Players THEN lc
                                                ELSE FreshControllers[c]]
    /\ cmd = NoCommand
    /\ last = NoCall
    /\ gridOps = 0
    /\ ctlOps = 0
    /\ newOps = 0

NextTurn ==
    \/ \E a \in Placed : \E pick \in Picks(a) : MakeTurn(a, pick)
    \/ \E a \in Placed, b \in Placed : a # b /\ Collide(a, b)

SpecTurn == InitTurn /\ [][NextTurn]_vars

\* ------------------------------------------------------- actors being moved
\* Destinations of a move: every cell of the map, and locations off it with a
\* coordinate of -1 or equal to the width or the height.
MoveLocs == InBounds \cup {<<-1, 0>>, <<Width, 0>>, <<Width, Height>>}

InitAct ==
    /\ \E walls \in Placements, cast \in PairCasts, h \in InputHps :
          LET w == Scenario(walls \o cast) IN
          /\ tiles = w.tiles
          /\ actors = w.actors
          /\ stamp = w.stamp
          /\ hp = [e \in Entities |-> IF HasFighter(e) THEN h ELSE 0]
          /\ game_log = w.game_log
          /\ game_events = w.game_events
          /\ ammo = w.ammo
          /\ inventory = w.inventory
    /\ last_command = FreshControllers
    /\ cmd = NoCommand
    /\ last = NoCall
    /\ gridOps = 0
    /\ ctlOps = 0
    /\ newOps = 0

NextAct == \E a \in Placed, loc \in MoveLocs : Move(a, loc)

SpecAct == InitAct /\ [][NextAct]_vars

\* ------------------------------------------------ effects applied to a map
\* The items the factories make with an effect.
Effects == {Rocket, Landmine, Bottle, Ammo}

\* Locations effects are aimed at: the origin, the centre, and one off the map.
FxLocs == {<<0, 0>>, <<1, 1>>, <<Width, 0>>}

\* Targets handed to affect and use.
InputTargets == {AtLocation(c) : c \in FxLocs} \cup {AtActor("pc")}

\* The player in the centre holding one item of each kind, optionally a barrel
\* on the origin or under the player and a potion lying east of the origin or
\* on the origin.
FxCasts ==
    {<<<<"pc", "actors", <<1, 1>>>>>> \o b \o p :
        b \in {<<>>} \cup {<<<<"barrel", "constructions", c>>>> : c \in {<<0, 0>>, <<1, 1>>}},
        p \in {<<>>} \cup {<<<<"potion", "items", c>>>> : c \in {<<1, 0>>, <<0, 0>>}}}

\* The values random.choice and random() may produce for an effect.
Choices(effect) == IF effect.range = {} THEN {0} ELSE effect.range
Lucks(effect) == IF effect.effect_type = "explode" THEN BOOLEAN ELSE {FALSE}

\* effect.affect called directly.
Affect(effect, target, pick, lucky, rev) ==
    /\ gridOps < MaxGridOps
    /\ LET res == affect(World, effect, target, pick, lucky, rev) IN
       /\ Commit(res)
       /\ last' = [NoCall EXCEPT !.op = "affect", !.effect = effect, !.target = target,
                                 !.ret = res.ret, !.exn = res.exn]
    /\ gridOps' = gridOps + 1
    /\ UNCHANGED <<last_command, cmd, ctlOps, newOps>>

\* item.use(target) by the actor holding the item.
Use(user, item, target, pick, lucky, rev) ==
    /\ gridOps < MaxGridOps
    /\ item \in inventory[user]
    /\ LET res == use(World, user, item, target, pick, lucky, rev) IN
       /\ Commit(res)
       /\ last' = [NoCall EXCEPT !.op = "use", !.actor = user, !.effect = item,
                                 !.target = target, !.ret = res.ret, !.exn = res.exn]
    /\ gridOps' = gridOps + 1
    /\ UNCHANGED <<last_command, cmd, ctlOps, newOps>>

InitFx ==
    /\ \E cast \in FxCasts :
          LET w == Scenario(cast) IN
          /\ tiles = w.tiles
          /\ actors = w.actors
          /\ stamp = w.stamp
          /\ hp = w.hp
          /\ game_log = w.game_log
          /\ game_events = w.game_events
          /\ ammo = w.ammo
          /\ inventory = [w.inventory EXCEPT !["pc"] = Effects]
    /\ last_command = FreshControllers
    /\ cmd = NoCommand
    /\ last = NoCall
    /\ gridOps = 0
    /\ ctlOps = 0
    /\ newOps = 0

NextFx ==
    \/ \E effect \in Effects, target \in InputTargets :
          \E pick \in Choices(effect), lucky \in Lucks(effect), rev \in Lucks(effect) :
             Affect(effect, target, pick, lucky, rev)
    \/ \E user \in Placed, item \in Effects, target \in InputTargets \cup {NoTarget} :
          \E pick \in Choices(item), lucky \in Lucks(item), rev \in Lucks(item) :
             Use(user, item, target, pick, lucky, rev)

SpecFx == InitFx /\ [][NextFx]_vars

\* ------------------------------------------------------------ turn advances
\* Fighters as the factories make them.
AdvHp == [e \in Entities |-> IF e = "pc" THEN PlayerHp
                             ELSE IF e = "thug" THEN ThugHp
                             ELSE FighterInit[e]]

\* The player in the centre with the thug north of it, added before or after
\* it; the same with a third actor in a far corner; the thug and the third
\* actor in opposite corners without the player.
AdvCasts ==
    {<<<<"pc", "actors", <<1, 1>>>>, <<"thug", "actors", <<1, 0>>>>>>,
     <<<<"thug", "actors", <<1, 0>>>>, <<"pc", "actors", <<1, 1>>>>>>,
     <<<<"thug", "actors", <<1, 0>>>>, <<"mute", "actors", <<Width - 1, Height - 1>>>>,
       <<"pc", "actors", <<1, 1>>>>>>,
     <<<<"mute", "actors", <<Width - 1, Height - 1>>>>,
       <<"thug", "actors", <<Width - 1, 0>>>>>>}

\* What the player's controller holds once the player has issued wait.
Waiting == accept_command(UnsetCommand, Command("wait", NoValue).ret).last_command

\* The map advances one turn on a key.
ProcessTurn(key, picks) ==
    /\ ctlOps < MaxCtlOps
    /\ LET res == process_turn(World, last_command, key, picks) IN
       /\ res.fair
       /\ Commit(res)
       /\ last_command' = res.last_command
       /\ last' = [NoCall EXCEPT !.op = "process_turn", !.key = key, !.calls = res.calls,
                                 !.exn = res.exn]
    /\ ctlOps' = ctlOps + 1
    /\ UNCHANGED <<cmd, gridOps, newOps>>

InitAdv ==
    /\ \E cast \in AdvCasts :
          LET w == Scenario(cast) IN
          /\ tiles = w.tiles
          /\ actors = w.actors
          /\ stamp = w.stamp
          /\ hp = AdvHp
          /\ game_log = w.game_log
          /\ game_events = w.game_events
          /\ ammo = w.ammo
          /\ inventory = [w.inventory EXCEPT !["pc"] = {Rocket, Landmine}]
    /\ \E lc \in {UnsetCommand, Waiting} :
          last_command = [c \in Controllers |-> IF c \in Players THEN lc
                                                ELSE FreshControllers[c]]
    /\ cmd = NoCommand
    /\ last = NoCall
    /\ gridOps = 0
    /\ ctlOps = 0
    /\ newOps = 0

\* The calls made so far.
AdvSteps == gridOps + ctlOps + newOps

NextAdv ==
    \/ \E key \in InputKeys, f \in [Actors \ Players -> Actors \cup {None}] :
          /\ AdvSteps < MaxCtlOps
          /\ ProcessTurn(key, [a \in Actors |-> IF a \in Players THEN None ELSE f[a]])
    \/ \E a \in Placed : \E pick \in Picks(a) : AdvSteps < MaxCtlOps /\ MakeTurn(a, pick)
    \/ \E a \in Placed, b \in Placed : AdvSteps < MaxCtlOps /\ a # b /\ Collide(a, b)
    \/ \E user \in Placed \cap Players, item \in {Rocket, Landmine} :
          \E lucky \in Lucks(item) :
             /\ AdvSteps < MaxCtlOps
             /\ Use(user, item, AtLocation(<<0, 0>>), 0, lucky, FALSE)

SpecAdv == InitAdv /\ [][NextAdv]_vars

\* ------------------------------------------------------------------ claims
Range(f) == {f[i] : i \in DOMAIN f}

ValidTypes == {"walk", "use_item", "wait", "grab", "drop_item"}

\* C1: after add_item(entity, layer, location) at a location on the map,
\* get_item there returns that entity; after delete_item(layer, location),
\* get_item there returns None and has_item is False.
C1_AddGetDelete ==
    /\ (last.op = "add_item" /\ last.loc \in InBounds)
          => /\ get_item(World, last.layer, last.loc).exn = "none"
             /\ get_item(World, last.layer, last.loc).ret = last.item
    /\ (last.op = "delete_item" /\ last.loc \in InBounds)
          => /\ get_item(World, last.layer, last.loc).ret = None
             /\ has_item(World, last.layer, last.loc).ret = FALSE

\* C2: after move_item(layer, from, to) with from and to on the map (and
\* different), the cell to holds what occupied from before the call and the
\* cell from is empty.
C2_MoveRelocates ==
    (last.op = "move_item" /\ last.loc \in InBounds /\ last.to \in InBounds
        /\ last.loc # last.to)
       => /\ Occupant(World, last.layer, last.to) = last.prev
          /\ Occupant(World, last.layer, last.loc) = None

\* C3: after delete_item(layer, location) the cell is empty, and an Actor that
\* was removed is no longer in the roster.
C3_DeleteClearsCellAndRoster ==
    (last.op = "delete_item" /\ last.loc \in InBounds)
       => /\ Occupant(World, last.layer, last.loc) = None
          /\ IsActor(last.prev) => last.prev \notin Range(actors)

\* C4: after add_item of an Actor, the actor is the last of the roster and is
\* stamped with the map, the layer and the location of the call; an entity
\* that is no Actor is not in the roster.
C4_AddRegistersAndStamps ==
    (last.op = "add_item" /\ last.exn = "none")
       => IF IsActor(last.item)
          THEN /\ Len(actors) > 0
               /\ actors[Len(actors)] = last.item
               /\ stamp[last.item].map = "map"
               /\ stamp[last.item].layer = last.layer
               /\ stamp[last.item].location = last.loc
          ELSE last.item \notin Range(actors)

\* C5: every cell of every layer holds one entity or nothing, and an add_item
\* onto an occupied cell replaces the occupant: the cell then holds the entity
\* added and no longer the one it held.
C5_OneEntityPerCell ==
    /\ \A l \in Layers, x \in 0 .. Width - 1, y \in 0 .. Height - 1 :
          tiles[l][x][y] \in Entities \cup {None}
    /\ (last.op = "add_item" /\ last.exn = "none" /\ last.prev # None)
          => /\ Occupant(World, last.layer, last.loc) = last.item
             /\ last.prev # last.item => Occupant(World, last.layer, last.loc) # last.prev

C5_Witness ==
    /\ last.op = "add_item"
    /\ last.exn = "none"
    /\ last.prev \notin {None, last.item}
    /\ Occupant(World, last.layer, last.loc) = last.item

\* C6: add_item with a location off the map (a coordinate below 0, or at or
\* above the width or height) raises the bounds error and changes no cell.
C6_AddOutOfBounds ==
    [][(last'.op = "add_item" /\ last'.loc \notin InBounds)
          => (last'.exn = "IndexError" /\ tiles' = tiles)]_vars

\* C7: get_item and has_item with a location off the map raise the bounds
\* error instead of answering for some cell of the map.
C7_LookupOutOfBounds ==
    (last.op \in {"get_item", "has_item"} /\ last.loc \notin InBounds)
       => last.exn = "IndexError"

\* C8: constructing a Command with a command_type outside walk, use_item,
\* wait, grab, drop_item raises and yields no object, with one of the five it
\* yields the Command; so the Command a caller holds and the Command a
\* controller has pending always carry one of the five types.
C8_CommandValidated ==
    /\ (last.op = "Command" /\ last.ctype \notin ValidTypes)
          => (last.exn = "AssertionError" /\ last.pending = NoCommand)
    /\ (last.op = "Command" /\ last.ctype \in ValidTypes)
          => /\ last.exn = "none"
             /\ cmd = [command_type |-> last.ctype, command_value |-> last.cvalue]
    /\ cmd # NoCommand => cmd.command_type \in ValidTypes
    /\ \A a \in Controllers :
          last_command[a] \notin {NoCommand, UnsetCommand}
             => last_command[a].command_type \in ValidTypes

C8_Witness ==
    /\ last.op = "Command"
    /\ last.ctype \notin ValidTypes
    /\ last.exn = "AssertionError"

\* The payload has the shape the command type asks for: an offset for walk,
\* an item for use_item and drop_item.
WellFormed(c) ==
    /\ c.command_type \in ValidTypes
    /\ c.command_type = "walk" => Len(c.command_value) = 2
    /\ c.command_type \in {"use_item", "drop_item"} => Len(c.command_value) >= 1

\* The one actor method the claim names for a command of an actor at `at`.
ExpectedCall(c, at) ==
    CASE c.command_type = "walk" ->
            [op |-> "move", arg |-> <<at[1] + c.command_value[1], at[2] + c.command_value[2]>>]
      [] c.command_type = "wait" -> [op |-> "pause", arg |-> <<>>]
      [] c.command_type = "use_item" -> [op |-> "use_item", arg |-> <<c.command_value[1]>>]
      [] c.command_type = "grab" -> [op |-> "grab", arg |-> <<>>]
      [] c.command_type = "drop_item" -> [op |-> "drop_item", arg |-> <<c.command_value[1]>>]

\* C9: call_actor_method on the controller of a placed actor with a pending
\* Command whose payload fits its type calls exactly one actor method: move for
\* walk, pause for wait, use_item for use_item, grab for grab, drop_item for
\* drop_item; and move is called with the actor's location plus the offset.
C9_ResolveDispatch ==
    (last.op = "call_actor_method" /\ last.pending \notin {NoCommand, UnsetCommand}
        /\ WellFormed(last.pending) /\ Len(last.at) = 2)
       => last.calls = <<ExpectedCall(last.pending, last.at)>>

C9_Witness ==
    /\ last.op = "call_actor_method"
    /\ last.pending.command_type = "walk"
    /\ last.pending.command_value = <<1, 0>>
    /\ last.at = <<0, 0>>
    /\ last.calls = <<[op |-> "move", arg |-> <<1, 0>>]>>

\* C10: after call_actor_method on a controller with a pending Command whose
\* payload fits its type, the controller has no pending command.
C10_PendingConsumed ==
    (last.op = "call_actor_method" /\ last.pending \notin {NoCommand, UnsetCommand}
        /\ WellFormed(last.pending) /\ Len(last.at) = 2)
       => last_command[last.actor] = NoCommand

\* C11: call_actor_method on a player controller that has no pending command
\* (last_command None, or never assigned as after construction) or that has no
\* actor attached raises at once: no actor method is called and neither the
\* map, the actors nor the pending command change.
C11_ResolveUnusable ==
    [][(last'.op = "call_actor_method"
          /\ (last'.pending \in {NoCommand, UnsetCommand} \/ ~IsActor(ActorOf(last'.actor))))
         => /\ last'.exn = "AttributeError"
            /\ last'.calls = <<>>
            /\ UNCHANGED <<tiles, actors, stamp, hp, game_log, game_events, ammo, inventory, last_command>>]_vars

C11_Witness ==
    /\ last.op = "call_actor_method"
    /\ last.actor = Loose
    /\ last.pending \notin {NoCommand, UnsetCommand}
    /\ last.exn = "AttributeError"
    /\ last.calls = <<>>

\* C12: take_keycode with a symbol that is not in the symbol -> Command mapping
\* returns False, raises nothing and leaves the pending command as it was;
\* with a mapped symbol it stores the mapped Command as pending and returns
\* True.
C12_TakeKeycode ==
    last.op = "take_keycode"
       => IF last.key \in DOMAIN commands
          THEN /\ last.exn = "none"
               /\ last.ret = TRUE
               /\ last_command[last.actor] = commands[last.key]
          ELSE /\ last.exn = "none"
               /\ last.ret = FALSE
               /\ last_command[last.actor] = last.pending

\* C13: make_turn of an actor whose fighter has hp <= 0 returns False without
\* calling its controller: no actor method runs, and the map, the roster, every
\* hp, the log and the pending command stay as they were.  This holds for
\* every turn taken while hp <= 0.
C13_DeadNeverAct ==
    [][(last'.op = "make_turn" /\ HasFighter(last'.actor) /\ hp[last'.actor] <= 0)
         => /\ last'.exn = "none"
            /\ last'.ret = FALSE
            /\ last'.calls = <<>>
            /\ UNCHANGED <<tiles, actors, stamp, hp, game_log, game_events, ammo, inventory, last_command>>]_vars

C13_Witness ==
    /\ last.op = "make_turn"
    /\ last.actor \in Players
    /\ hp[last.actor] <= 0
    /\ last.pending \notin {NoCommand, UnsetCommand}
    /\ last.exn = "none"
    /\ last.ret = FALSE
    /\ ctlOps = MaxCtlOps

\* An Actor stands on the actors layer of the destination: the scan of the
\* column collides with it.
Occupied(to) == to \in InBounds /\ IsActor(tiles["actors"][to[1]][to[2]])

\* C14: move(to) returns, and the actor has entered the destination (the
\* cell holds it and its location is the destination) exactly when
\* entrance_possible(to) held when the move began; move returns True exactly
\* when the actor entered or a collision occurred during the scan; when
\* neither happened the grid and the recorded locations are unchanged.
C14_MoveEntersIffPossible ==
    [][last'.op = "move"
         => LET a == last'.actor
                to == last'.to
                entered == /\ to \in InBounds
                           /\ tiles'["actors"][to[1]][to[2]] = a
                           /\ stamp'[a].location = to
            IN  /\ last'.exn = "none"
                /\ entered <=> entrance_possible(World, to)
                /\ (last'.ret = TRUE) <=> (entered \/ Occupied(to))
                /\ (~entered /\ ~Occupied(to)) => UNCHANGED <<tiles, stamp>>]_vars

\* C15: move to a destination off the map (a coordinate of -1, or equal to the
\* width or the height, as the AI's step by +1,+1 from the last column and row
\* gives) raises nothing and returns False: nothing is collided with, the
\* actor is not relocated and no cell, hp or log entry changes.
C15_MoveOffMap ==
    [][(last'.op = "move" /\ last'.to \notin InBounds)
         => /\ last'.exn = "none"
            /\ last'.ret = FALSE
            /\ UNCHANGED <<tiles, actors, stamp, hp, game_log, game_events, ammo, inventory>>]_vars

C15_Witness ==
    /\ last.op = "move"
    /\ last.to = <<Width, Height>>
    /\ last.exn = "none"
    /\ last.ret = FALSE
    /\ stamp[last.actor].location = last.at

C17_KilledIsRemoved ==
    (last.op = "collide" /\ HasFighter(last.actor) /\ HasFighter(last.item)
        /\ hp[last.actor] <= 0)
       => /\ last.exn = "none"
          /\ Len(game_log) > 0
          /\ game_log[Len(game_log)] = <<"killed", last.actor>>
          /\ Occupant(World, "actors", last.at) # last.actor

\* The positions of the log at which e is reported killed.
Killings(e) == {i \in DOMAIN game_log : game_log[i][1] = "killed" /\ game_log[i][2] = e}

\* C18: an entity is destroyed once: however often damage is applied after
\* its hp has reached 0 or less (a second collision), the log reports it
\* killed at most once.
C18_DestroyedOnce ==
    \A e \in Actors : Cardinality(Killings(e)) <= 1

\* The party of a collision without a fighter (self when neither has one).
NonCombat(self, other) == IF ~HasFighter(self) THEN self ELSE other

\* C19: self.collide(other) where one of the two has no fighter, with the
\* fallback location (1,1) enterable and empty, returns having relocated the
\* party without a fighter: its location is (1,1), the cell (1,1) of the actors
\* layer holds it, the cell it stood on is empty, and the teleport is logged.
C19_DisplacementRelocates ==
    [][(/\ last'.op = "collide"
        /\ ~(HasFighter(last'.actor) /\ HasFighter(last'.item))
        /\ entrance_possible(World, Fallback)
        /\ tiles["actors"][Fallback[1]][Fallback[2]] = None)
         => LET n == NonCombat(last'.actor, last'.item)
                old == stamp[n].location
            IN  /\ last'.exn = "none"
                /\ stamp'[n].location = Fallback
                /\ tiles'["actors"][Fallback[1]][Fallback[2]] = n
                /\ tiles'["actors"][old[1]][old[2]] = None
                /\ Len(game_log') = Len(game_log) + 1
                /\ game_log'[Len(game_log')][1] = "teleported"]_vars

\* The actor a move of actor a to the location `to` bumps into, None if none.
Bumped(a, to) ==
    IF Occupied(to) /\ tiles["actors"][to[1]][to[2]] # a
    THEN tiles["actors"][to[1]][to[2]] ELSE None

\* C20: a collision where one of the two has no fighter, with the fallback
\* location blocked, changes no location and no cell and appends the entry of
\* the failed displacement; collide returns True, and the move that bumped
\* (here the one move of a turn) returns True as well.
C20_DisplacementFails ==
    [][/\ (/\ last'.op = "collide"
            /\ ~(HasFighter(last'.actor) /\ HasFighter(last'.item))
            /\ ~entrance_possible(World, Fallback))
             => /\ last'.exn = "none"
                /\ last'.ret = TRUE
                /\ UNCHANGED <<tiles, actors, stamp, hp>>
                /\ game_log' = Append(game_log, <<"teleport_failed", last'.actor, last'.item>>)
       /\ (/\ last'.op = "make_turn"
            /\ Len(last'.calls) = 1
            /\ last'.calls[1].op = "move"
            /\ Bumped(last'.actor, last'.calls[1].arg) # None
            /\ ~(HasFighter(last'.actor)
                   /\ HasFighter(Bumped(last'.actor, last'.calls[1].arg)))
            /\ ~entrance_possible(World, Fallback))
             => /\ last'.exn = "none"
                /\ last'.ret = TRUE
                /\ UNCHANGED <<tiles, actors, stamp, hp>>
                /\ game_log' = Append(game_log,
                                      <<"teleport_failed",
                                        Bumped(last'.actor, last'.calls[1].arg), last'.actor>>)
      ]_vars

\* --------------------------------------------------------------- effects
\* The location a call of affect or use applies a tile effect to: the target,
\* or the place of the user when use is given none.
Aim(call, st) ==
    IF call.target.kind = "location" THEN call.target.loc
    ELSE IF call.target.kind = None /\ call.op = "use" THEN st[call.actor].location
    ELSE <<>>

\* A call of affect or use of an effect of the given type.
Applies(call, effect_type) ==
    call.op \in {"affect", "use"} /\ call.effect.effect_type = effect_type

\* C21: spawn_construction never overwrites: applied to a location whose cell
\* of the constructions layer is occupied it returns False, no cell changes
\* (the occupant stays) and no event is appended.
C21_SpawnNeverOverwrites ==
    [][(/\ Applies(last', "spawn_construction")
        /\ Occupant(World, "constructions", Aim(last', stamp)) # None)
       => /\ last'.exn = "none"
          /\ last'.ret = FALSE
          /\ tiles' = tiles
          /\ game_events' = game_events]_vars

\* The mine was aimed at the barrel on the origin: refused, the barrel stays.
C21_Witness ==
    /\ last.op = "affect"
    /\ last.effect = Landmine
    /\ last.target = AtLocation(<<0, 0>>)
    /\ last.exn = "none"
    /\ last.ret = FALSE
    /\ tiles["constructions"][0][0] = "barrel"
    /\ game_events = <<>>

\* C22: spawn_construction applied to a location whose cell of the
\* constructions layer is empty returns True, the cell then holds the entity of
\* the effect, and exactly one construction_spawned event for that entity and
\* location is appended to the events.
C22_SpawnOnEmpty ==
    [][(/\ Applies(last', "spawn_construction")
        /\ SubscriptExn("constructions", Aim(last', stamp)) = "none"
        /\ Occupant(World, "constructions", Aim(last', stamp)) = None)
       => /\ last'.exn = "none"
          /\ last'.ret = TRUE
          /\ tiles'["constructions"][CellX(Aim(last', stamp))][CellY(Aim(last', stamp))]
                = last'.effect.entity
          /\ game_events' = Append(game_events,
                                   [event_type |-> "construction_spawned",
                                    actor |-> last'.effect.entity,
                                    location |-> Aim(last', stamp)])]_vars

\* The mine was laid on the empty origin and reported.
C22_Witness ==
    /\ last.op = "affect"
    /\ last.effect = Landmine
    /\ last.target = AtLocation(<<0, 0>>)
    /\ last.exn = "none"
    /\ last.ret = TRUE
    /\ tiles["constructions"][0][0] = "mine"
    /\ game_events = <<[event_type |-> "construction_spawned", actor |-> "mine",
                        location |-> <<0, 0>>]>>

\* A call of affect or use that set off an explosion at a location.
Exploded(call) == Applies(call, "explode") /\ call.target.kind = "location"

\* The cells an explosion at loc reaches.
Footprint(loc) == {c \in InBounds : c[1] - loc[1] \in -1 .. 1 /\ c[2] - loc[2] \in -1 .. 1}

\* C23: explode ground-zero rule: a Construction with a fighter on the very
\* location of the explosion loses twice its max_hp plus effect_value; every
\* other fighter on that location or on a neighbouring cell loses effect_value.
C23_GroundZeroRule ==
    [][Exploded(last')
       => \A c \in Footprint(last'.target.loc) :
             \A e \in Range(get_column(World, c).ret) :
                HasFighter(e)
                => hp'[e] = hp[e] - (IF IsConstruction(e) /\ c = last'.target.loc
                                     THEN max_hp(e) * 2 + last'.effect.amount
                                     ELSE last'.effect.amount)]_vars

\* The same rule for explosions that reach no item.
C23_RuleWithoutItems ==
    [][(/\ Exploded(last')
        /\ \A c \in Footprint(last'.target.loc) :
              \A e \in Range(get_column(World, c).ret) : ~IsItem(e))
       => \A c \in Footprint(last'.target.loc) :
             \A e \in Range(get_column(World, c).ret) :
                HasFighter(e)
                => hp'[e] = hp[e] - (IF IsConstruction(e) /\ c = last'.target.loc
                                     THEN max_hp(e) * 2 + last'.effect.amount
                                     ELSE last'.effect.amount)]_vars

\* C24: after every explode at a location on the map the cell of the
\* constructions layer there holds a new impassable hole, whatever it held
\* before, the call returns True, and among the events the call appended a
\* construction_spawned event for the hole follows the exploded event for the
\* location.
C24_ExplodeLeavesHole ==
    [][(Exploded(last') /\ last'.target.loc \in InBounds)
       => /\ last'.exn = "none"
          /\ last'.ret = TRUE
          /\ tiles'["constructions"][last'.target.loc[1]][last'.target.loc[2]] = "hole"
          /\ ~Passable("hole")
          /\ \E i, j \in Len(game_events) + 1 .. Len(game_events') :
                /\ i < j
                /\ game_events'[i] = [event_type |-> "exploded", actor |-> None,
                                      location |-> last'.target.loc]
                /\ game_events'[j] = [event_type |-> "construction_spawned",
                                      actor |-> "hole", location |-> last'.target.loc]]_vars

\* A call handing an effect a target of the other kind.
Mismatched(call) ==
    /\ call.op \in {"affect", "use"}
    /\ \/ call.effect.class = "fighter" /\ call.target.kind = "location"
       \/ call.effect.class = "tile" /\ call.target.kind = "actor"

\* C25: an effect accepts its own kind of target only: a fighter effect
\* applied to a location, or a tile effect applied to an actor, raises and
\* changes no fighter, no cell, no log entry and no event.
C25_WrongTargetKind ==
    [][Mismatched(last')
       => /\ last'.exn # "none"
          /\ hp' = hp
          /\ ammo' = ammo
          /\ tiles' = tiles
          /\ game_log' = game_log
          /\ game_events' = game_events]_vars

\* The same for effects applied directly, explode left aside.
C25_DirectAndNotExplode ==
    [][(Mismatched(last') /\ last'.op = "affect" /\ last'.effect.effect_type # "explode")
       => /\ last'.exn # "none"
          /\ UNCHANGED <<tiles, actors, stamp, hp, game_log, game_events, ammo, inventory>>]_vars

\* The actor a call of affect or use applies a fighter effect to: the target,
\* or the user when use is given none.
Patient(call) ==
    IF call.target.kind = "actor" THEN call.target.actor
    ELSE IF call.target.kind = None /\ call.op = "use" THEN call.actor
    ELSE None

\* C26: heal and restore_ammo add and do not clamp: heal raises the hp of the
\* target by one of the values of the effect, restore_ammo raises its ammo by
\* exactly the amount of the effect, whatever max_hp and max_ammo are, and no
\* other field of any fighter changes; called directly, nothing else changes.
C26_AdditiveUnclamped ==
    [][(/\ last'.op \in {"affect", "use"}
        /\ last'.effect.class = "fighter"
        /\ Patient(last') # None
        /\ HasFighter(Patient(last')))
       => /\ last'.exn = "none"
          /\ last'.ret = TRUE
          /\ last'.effect.effect_type = "heal"
             => /\ \E v \in last'.effect.range :
                      hp' = [hp EXCEPT ![Patient(last')] = @ + v]
                /\ ammo' = ammo
          /\ last'.effect.effect_type = "restore_ammo"
             => /\ ammo' = [ammo EXCEPT ![Patient(last')] = @ + last'.effect.amount]
                /\ hp' = hp
          /\ last'.op = "affect"
             => UNCHANGED <<tiles, actors, stamp, game_log, game_events, inventory>>]_vars

\* The player was healed and resupplied past max_hp and max_ammo.
C26_Witness ==
    /\ last.op = "affect"
    /\ last.effect \in {Bottle, Ammo}
    /\ last.target = AtActor("pc")
    /\ last.exn = "none"
    /\ hp["pc"] = FighterInit["pc"] + 3
    /\ hp["pc"] > max_hp("pc")
    /\ ammo["pc"] = AmmoInit["pc"] + Ammo.amount
    /\ ammo["pc"] > max_ammo("pc")

\* ------------------------------------------------------------- the melee AI
\* C27: the melee AI: when its actor has fighters among the occupants of the
\* neighbouring cells of its layer, the controller moves the actor onto the
\* location of one of them, never onto a neighbour without a fighter, and the
\* move collides with it (the collision is logged); when it has none, the
\* actor moves to its own location plus (1, 1).
C27_MeleePolicy ==
    [][(last'.op = "make_turn" /\ last'.actor \notin Players /\ last'.calls # <<>>)
       => LET at == stamp[last'.actor].location
              fighters == {n \in get_neighbours(World, "actors", at) : HasFighter(n)}
          IN  IF fighters # {}
              THEN /\ \E v \in fighters :
                         last'.calls = <<[op |-> "move", arg |-> stamp[v].location]>>
                   /\ Len(game_log') > Len(game_log)
              ELSE last'.calls = <<[op |-> "move", arg |-> <<at[1] + 1, at[2] + 1>>]>>]_vars

\* The same policy over every neighbour, with or without a fighter.
C27_AnyNeighbour ==
    [][(last'.op = "make_turn" /\ last'.actor \notin Players /\ last'.calls # <<>>)
       => LET at == stamp[last'.actor].location
              neighbours == get_neighbours(World, "actors", at)
          IN  IF neighbours # {}
              THEN /\ \E v \in neighbours :
                         last'.calls = <<[op |-> "move", arg |-> stamp[v].location]>>
                   /\ Len(game_log') > Len(game_log)
              ELSE last'.calls = <<[op |-> "move", arg |-> <<at[1] + 1, at[2] + 1>>]>>]_vars

\* ------------------------------------------------------------ turn advances
\* The turns of a whole advance over the roster, in its order.
RosterTurns(roster) == [i \in 1 .. Len(roster) |-> [op |-> "make_turn", arg |-> <<roster[i]>>]]

\* C28: in every turn advance the actors take their turns one at a time in the
\* order of the roster, the order in which add_item placed them, the same in
\* every advance; a turn is complete before the next begins.
C28_RosterOrder ==
    [][last'.op = "process_turn"
       => /\ last'.exn = "none"
          /\ last'.calls = RosterTurns(actors)
          /\ actors' = actors]_vars

\* The turns an advance does make are the first of the roster, in its order.
C28_PrefixOfRoster ==
    [][last'.op = "process_turn"
       => /\ Len(last'.calls) <= Len(actors)
          /\ last'.calls = SubSeq(RosterTurns(actors), 1, Len(last'.calls))
          /\ actors' = actors]_vars

\* The scenario: the player in the centre with hp 10, having issued wait, and
\* the thug, hp 3 and damage 3, next to it; nobody else.
Duel ==
    /\ Placed = {"pc", "thug"}
    /\ stamp["pc"].location = <<1, 1>>
    /\ stamp["thug"].location = <<1, 0>>
    /\ hp["pc"] = PlayerHp
    /\ hp["thug"] = ThugHp
    /\ Damage("thug") = 3
    /\ last_command["pc"] = Waiting

\* C29: from the scenario one turn advance ends with the player at hp 7, the
\* thug still at hp 3, the thug's hit on the player logged, and both actors
\* still on their cells and in the roster.
C29_DuelTurn ==
    [][(Duel /\ last'.op = "process_turn")
       => /\ last'.exn = "none"
          /\ hp'["pc"] = 7
          /\ hp'["thug"] = 3
          /\ \E i \in Len(game_log) + 1 .. Len(game_log') :
                game_log'[i] = <<"hit", "thug", "pc", Damage("pc")>>
          /\ tiles'["actors"][1][1] = "pc"
          /\ tiles'["actors"][1][0] = "thug"
          /\ {"pc", "thug"} \subseteq Range(actors')]_vars

\* ---------------------------------------------------------------- the logs
\* s is what t starts with.
IsPrefix(s, t) == Len(s) <= Len(t) /\ SubSeq(t, 1, Len(s)) = s

\* C30: the log and the events are append-only: every call (a collision, a
\* spawned construction, an explosion, the use of an item, a turn, a turn
\* advance) leaves the entries there were unchanged and in their order and
\* only adds entries at the end.
C30_AppendOnly ==
    [][IsPrefix(game_log, game_log') /\ IsPrefix(game_events, game_events')]_vars

\* A rocket was used after a hit was logged: both the log and the events got
\* entries behind the ones they had.
C30_Witness ==
    /\ last.op = "use"
    /\ last.effect = Rocket
    /\ last.exn = "none"
    /\ Len(game_log) >= 2
    /\ game_log[1][1] = "hit"
    /\ game_log[Len(game_log)][1] = "used"
    /\ Len(game_events) >= 4
    /\ game_events[1].event_type = "construction_spawned"
    /\ game_events[Len(game_events)].event_type = "construction_spawned"

\* ------------------------------------------------------ the roster and the map
\* The cells of the actors' layer that hold a.
CellsOf(a) == {c \in InBounds : tiles["actors"][c[1]][c[2]] = a}

C32_ChainsEnd ==
    last.op \in {"make_turn", "move", "collide", "process_turn"} => last.exn # "RecursionError"

\* ------------------------------------------------------- one turn per actor
\* The actor is in the roster and not dead: it has no fighter or its hp is
\* above zero.
Living(a, roster, hps) ==
    /\ \E i \in 1 .. Len(roster) : roster[i] = a
    /\ ~HasFighter(a) \/ hps[a] > 0

\* How many of the turns made are turns of a.
TurnsOf(a, calls) ==
    Cardinality({i \in 1 .. Len(calls) : calls[i] = [op |-> "make_turn", arg |-> <<a>>]})

\* C33: in one turn advance every actor of the roster that is alive when the
\* advance starts and is not killed during it takes exactly one turn; the
\* death of an actor never makes another living actor lose its turn or take
\* two.
C33_OneTurnEach ==
    [][last'.op = "process_turn"
       => \A a \in Actors :
             Living(a, actors, hp) /\ Living(a, actors', hp')
             => TurnsOf(a, last'.calls) = 1]_vars

\* No actor takes two turns in one advance.
C33_AtMostOneTurn ==
    [][last'.op = "process_turn"
       => \A a \in Actors : TurnsOf(a, last'.calls) <= 1]_vars

\* ------------------------------------------------------ moves keep the entity
\* How many entries of the roster are e.
Occurrences(e, roster) == Cardinality({i \in 1 .. Len(roster) : roster[i] = e})

====
